---- MODULE Spec2Model ----
(***************************************************************************)
(* Model of modules/extract_dicom_metadata.py: the command-line driver     *)
(* (__main__) and extract_metadata, which decodes one DICOM file, coerces  *)
(* a fixed list of attributes into a metadata dictionary and writes it as  *)
(* JSON, with two exception handlers that write a fallback document.       *)
(*                                                                         *)
(* Text is a tuple of one-character strings, so that upper(), the `in`     *)
(* substring test and float() of a string are computed.  A finite float is *)
(* held as an integer number of tenths (15 is 1.5).                        *)
(***************************************************************************)
EXTENDS Integers, Sequences, FiniteSets, TLC

\* ------------------------------------------------------------------ bounds
\* At most this many attributes of a decoded Source Record are present.
MaxPresent == 2
\* The same bound for the records of SpecTwice.
MaxPresentTwice == 1
\* Number of times the program is run in SpecTwice.
MaxRuns == 2

\* ------------------------------------------------------- program constants
\* len(sys.argv) demanded by the driver.
ArgvLen == 3
\* fieldStrength of the two fallback documents (an int).
FallbackFieldStrength == 3
\* fieldStrength substituted when float(MagneticFieldStrength) fails: 3.0, in tenths.
DefaultFieldStrength == 30
\* Codes of extract_metadata: return 0, exit(1), return 2.
RcSuccess == 0
RcImport == 1
RcGeneric == 2
\* Status of the driver's own sys.exit(1), and of an uncaught exception.
UsageStatus == 1

\* ------------------------------------------------------------ Python values
PStr(s) == [t |-> "str", s |-> s]
PBytes(s) == [t |-> "bytes", b |-> s]
PFloat(n) == [t |-> "float", n |-> n]
PInt(n) == [t |-> "int", i |-> n]
PNan == [t |-> "nan"]
PInf == [t |-> "inf"]
PNone == [t |-> "none"]
PTrue == [t |-> "true"]
PList(xs) == [t |-> "list", elems |-> xs]
\* hasattr(dcm, name) is False.
Absent == [t |-> "absent"]
\* A raised exception of the given type.
Raise(type) == [t |-> "raise", exc |-> type]
IsRaise(v) == v.t = "raise"

\* ------------------------------------------------------------------- text
LowerAlpha ==
  <<"a","b","c","d","e","f","g","h","i","j","k","l","m",
    "n","o","p","q","r","s","t","u","v","w","x","y","z">>
UpperAlpha ==
  <<"A","B","C","D","E","F","G","H","I","J","K","L","M",
    "N","O","P","Q","R","S","T","U","V","W","X","Y","Z">>
DigitChars == <<"0","1","2","3","4","5","6","7","8","9">>

\* str.upper() of one character.
UpperCh(c) ==
  IF \E i \in 1..26 : LowerAlpha[i] = c
  THEN UpperAlpha[CHOOSE i \in 1..26 : LowerAlpha[i] = c]
  ELSE c
\* str.lower() of one character (float() reads "nan"/"inf" in any case).
LowerCh(c) ==
  IF \E i \in 1..26 : UpperAlpha[i] = c
  THEN LowerAlpha[CHOOSE i \in 1..26 : UpperAlpha[i] = c]
  ELSE c
Upper(s) == [i \in 1..Len(s) |-> UpperCh(s[i])]
Lower(s) == [i \in 1..Len(s) |-> LowerCh(s[i])]

\* `sub in s` for str.
Contains(s, sub) ==
  \E i \in 1..(Len(s) - Len(sub) + 1) : SubSeq(s, i, i + Len(sub) - 1) = sub

IsDigit(c) == \E i \in 1..10 : DigitChars[i] = c
DigitVal(c) == (CHOOSE i \in 1..10 : DigitChars[i] = c) - 1
IsDigits(s) == Len(s) > 0 /\ \A i \in 1..Len(s) : IsDigit(s[i])

RECURSIVE Num(_)
Num(s) == IF Len(s) = 0 THEN 0
          ELSE 10 * Num(SubSeq(s, 1, Len(s) - 1)) + DigitVal(s[Len(s)])

RECURSIVE IntStr(_)
IntStr(n) == IF n < 10 THEN <<DigitChars[n + 1]>>
             ELSE IntStr(n \div 10) \o <<DigitChars[(n % 10) + 1]>>

\* float(str): decimal digits with at most one fractional digit, or
\* nan / inf / infinity in any case; anything else raises ValueError.
ParseFloat(s) ==
  LET low == Lower(s)
      dots == {i \in 1..Len(s) : s[i] = "."}
  IN IF low = <<"n","a","n">> THEN PNan
     ELSE IF low = <<"i","n","f">> \/ low = <<"i","n","f","i","n","i","t","y">>
       THEN PInf
     ELSE IF IsDigits(s) THEN PFloat(10 * Num(s))
     ELSE IF Cardinality(dots) = 1
       THEN LET p == CHOOSE i \in dots : TRUE
                ip == SubSeq(s, 1, p - 1)
                fp == SubSeq(s, p + 1, Len(s))
            IN IF IsDigits(ip) /\ Len(fp) = 0 THEN PFloat(10 * Num(ip))
               ELSE IF IsDigits(ip) /\ Len(fp) = 1 /\ IsDigits(fp)
                 THEN PFloat(10 * Num(ip) + Num(fp))
               ELSE Raise("ValueError")
     ELSE Raise("ValueError")

\* float(value).
Float(v) ==
  CASE v.t = "str" -> ParseFloat(v.s)
    [] v.t = "bytes" -> ParseFloat(v.b)
    [] v.t \in {"float", "nan", "inf"} -> v
    [] v.t = "int" -> PFloat(10 * v.i)
    [] v.t = "true" -> PFloat(10)
    [] OTHER -> Raise("TypeError")

\* str(value); a list prints its text elements quoted, as a MultiValue does.
RECURSIVE Str(_)
RECURSIVE JoinRepr(_)
JoinRepr(xs) ==
  IF Len(xs) = 0 THEN <<>>
  ELSE LET x == xs[1]
           r == IF x.t = "str" THEN <<"'">> \o x.s \o <<"'">> ELSE Str(x)
       IN IF Len(xs) = 1 THEN r ELSE r \o <<",", " ">> \o JoinRepr(Tail(xs))
Str(v) ==
  CASE v.t = "str" -> v.s
    [] v.t = "bytes" -> <<"b", "'">> \o v.b \o <<"'">>
    [] v.t = "float" -> IntStr(v.n \div 10) \o <<".">> \o IntStr(v.n % 10)
    [] v.t = "int" -> IntStr(v.i)
    [] v.t = "nan" -> <<"n","a","n">>
    [] v.t = "inf" -> <<"i","n","f">>
    [] v.t = "none" -> <<"N","o","n","e">>
    [] v.t = "true" -> <<"T","r","u","e">>
    [] v.t = "list" -> <<"[">> \o JoinRepr(v.elems) \o <<"]">>

\* iter(value) succeeds: a list or a str (bytes are given to no element that
\* is iterated).
IsIterable(v) == v.t \in {"list", "str"}
\* `for x in value`: the elements of an iterable value.
Iter(v) ==
  IF v.t = "list" THEN v.elems
  ELSE [i \in 1..Len(v.s) |-> PStr(<<v.s[i]>>)]

\* hasattr(value, '__iter__') and not isinstance(value, (str, bytes, dict)).
IsIterableNonText(v) == v.t = "list"

\* The first raised element of a sequence of results, if any.
FirstRaise(xs) ==
  IF \E i \in 1..Len(xs) : IsRaise(xs[i])
  THEN xs[CHOOSE i \in 1..Len(xs) :
            IsRaise(xs[i]) /\ \A j \in 1..(i - 1) : ~IsRaise(xs[j])]
  ELSE PNone

\* safe_value(value): a list of recursively coerced elements; bytes as their
\* str(); otherwise float(value), and str(value) when float raises ValueError
\* or TypeError.
RECURSIVE safe_value(_)
safe_value(value) ==
  IF IsIterableNonText(value)
  THEN LET xs == [i \in 1..Len(value.elems) |-> safe_value(value.elems[i])]
       IN IF IsRaise(FirstRaise(xs)) THEN FirstRaise(xs) ELSE PList(xs)
  ELSE IF value.t = "bytes" THEN PStr(Str(value))
  ELSE LET f == Float(value)
       IN IF IsRaise(f)
          THEN IF f.exc \in {"ValueError", "TypeError"} THEN PStr(Str(value)) ELSE f
          ELSE f

\* ------------------------------------------------------------ Source Record
\* Free-text elements (LO, SH).
TextAttrs ==
  {"Manufacturer", "ManufacturerModelName", "ProtocolName", "SeriesDescription",
   "SequenceName"}
\* Multi-valued code strings (CS).
CodeListAttrs == {"ScanningSequence", "SequenceVariant", "ImageType"}
\* A single code string (CS).
CodeAttrs == {"MRAcquisitionType"}
\* Single decimal strings (DS).
NumAttrs ==
  {"MagneticFieldStrength", "SliceThickness", "RepetitionTime", "EchoTime",
   "FlipAngle", "SpacingBetweenSlices"}
\* The two-valued decimal string.
NumListAttrs == {"PixelSpacing"}
PrivateAttr == "Private_0019_10e0"
SafeAttrs == TextAttrs \cup CodeListAttrs \cup CodeAttrs
Attrs == SafeAttrs \cup NumAttrs \cup NumListAttrs \cup {PrivateAttr}

\* Values a free-text element decodes to.
TextValues ==
  { PStr(<<"A","X"," ","3","D"," ","S","P","A","C","E"," ","T","2">>),
    PStr(<<"s","e","2","d","1">>),
    PStr(<<"t","1","_","m","p","r","a","g","e">>),
    PStr(<<"M","A","G","N","E","T","O","M"," ","S","o","l","a">>),
    PStr(<<"n","a","n">>),
    PStr(<<"I","n","f","i","n","i","t","y">>) }
\* Values a multi-valued code string decodes to: a list, or None when empty.
CodeListValues ==
  { PList(<<PStr(<<"O","R","I","G">>), PStr(<<"1",".","5">>)>>),
    PNone }
\* Values a single code string decodes to: a str, or bytes when the element
\* was stored with an unknown VR.
CodeValues ==
  { PStr(<<"3","D">>), PBytes(<<"2","D">>) }
\* Values a decimal string decodes to: a float (NaN when the file says so),
\* or None when empty.
NumValues == { PFloat(15), PNan, PNone }
\* Values PixelSpacing decodes to: a list of floats, a list with an empty
\* component, or a single float.
NumListValues ==
  { PList(<<PFloat(5), PFloat(5)>>),
    PList(<<PFloat(5), PStr(<<>>)>>),
    PFloat(15) }
\* The private element is only tested for presence.
PrivateValues == { PBytes(<<"1">>) }

ValuesOf(a) ==
  IF a \in TextAttrs THEN TextValues
  ELSE IF a \in CodeListAttrs THEN CodeListValues
  ELSE IF a \in CodeAttrs THEN CodeValues
  ELSE IF a \in NumAttrs THEN NumValues
  ELSE IF a \in NumListAttrs THEN NumListValues
  ELSE PrivateValues
NoRecord == [a \in Attrs |-> Absent]
Present(rec) == {a \in Attrs : rec[a] # Absent}
\* The records over the attributes `as` with at most n attributes present.
RECURSIVE RecordsOver(_, _)
RecordsOver(as, n) ==
  IF as = {} THEN {NoRecord}
  ELSE LET a == CHOOSE x \in as : TRUE
           rest == RecordsOver(as \ {a}, n)
       IN rest \cup
          { [r EXCEPT ![a] = v] :
              r \in {q \in rest : Cardinality(Present(q)) < n}, v \in ValuesOf(a) }
\* The records pydicom.dcmread can return with at most n attributes present.
RecordsUpTo(n) == RecordsOver(Attrs, n)
Records == RecordsUpTo(MaxPresent)
RecordsTwice == RecordsUpTo(MaxPresentTwice)

hasattr(rec, a) == rec[a] # Absent

\* ---------------------------------------------------------- extraction
\* The state of the try body: the metadata dictionary built so far, and the
\* exception on its way to the outer handlers, if any.
NoExc == [t |-> "noexc"]
EmptyDict == [k \in {} |-> PNone]
Put(m, k, v) == [x \in (DOMAIN m) \cup {k} |-> IF x = k THEN v ELSE m[x]]
SetKey(st, k, v) == [st EXCEPT !.m = Put(st.m, k, v)]

\* if hasattr(dcm, attr): metadata[key] = safe_value(dcm.attr)
SafeField(st, rec, attr, key) ==
  IF st.exc # NoExc \/ ~hasattr(rec, attr) THEN st
  ELSE LET r == safe_value(rec[attr])
       IN IF IsRaise(r) THEN [st EXCEPT !.exc = r] ELSE SetKey(st, key, r)

\* FloatField without its try/except: the exception of float() leaves the block.
FloatFieldNoExcept(st, rec, attr, key) ==
  IF st.exc # NoExc \/ ~hasattr(rec, attr) THEN st
  ELSE LET r == Float(rec[attr])
       IN IF IsRaise(r) THEN [st EXCEPT !.exc = r] ELSE SetKey(st, key, r)

\* if hasattr(dcm, attr): try: metadata[key] = float(dcm.attr) except: pass
FloatField(st, rec, attr, key) ==
  IF st.exc # NoExc \/ ~hasattr(rec, attr) THEN st
  ELSE LET r == Float(rec[attr])
       IN IF IsRaise(r) THEN st ELSE SetKey(st, key, r)

\* Lines 45-50: float(dcm.MagneticFieldStrength), 3.0 when that raises.
FieldStrength(st, rec) ==
  IF st.exc # NoExc \/ ~hasattr(rec, "MagneticFieldStrength") THEN st
  ELSE LET r == Float(rec["MagneticFieldStrength"])
       IN IF IsRaise(r) THEN SetKey(st, "fieldStrength", PFloat(DefaultFieldStrength))
          ELSE SetKey(st, "fieldStrength", r)

\* Lines 40-50.
ScannerInfo(st, rec) ==
  FieldStrength(
    SafeField(SafeField(st, rec, "Manufacturer", "manufacturer"),
              rec, "ManufacturerModelName", "modelName"),
    rec)

\* Lines 52-68.
SequenceInfo(st, rec) ==
  SafeField(
   SafeField(
    SafeField(
     SafeField(
      SafeField(
       SafeField(
        SafeField(st, rec, "ProtocolName", "protocolName"),
        rec, "SeriesDescription", "seriesDescription"),
       rec, "SequenceName", "sequenceName"),
      rec, "ScanningSequence", "scanningSequence"),
     rec, "SequenceVariant", "sequenceVariant"),
    rec, "ImageType", "imageType"),
   rec, "MRAcquisitionType", "acquisitionType")

\* '3D' in x or 'MPRAGE' in x or 'SPACE' in x
Has3DWord(x) ==
  \/ Contains(x, <<"3","D">>)
  \/ Contains(x, <<"M","P","R","A","G","E">>)
  \/ Contains(x, <<"S","P","A","C","E">>)

\* Lines 69-74: the private 3D flag.
PrivateFlag(st, rec) ==
  IF st.exc # NoExc THEN st
  ELSE IF hasattr(rec, PrivateAttr) THEN SetKey(st, "is3D", PTrue) ELSE st

\* Detect3D with the SequenceName check assigning its own verdict to is_3d,
\* so that it resets what the SeriesDescription check found.
Detect3DReset(st, rec) ==
  IF st.exc # NoExc THEN st
  ELSE LET is_3d_desc ==
             /\ hasattr(rec, "SeriesDescription")
             /\ Has3DWord(Upper(Str(rec["SeriesDescription"])))
           is_3d ==
             IF hasattr(rec, "SequenceName")
             THEN Has3DWord(Upper(Str(rec["SequenceName"])))
             ELSE is_3d_desc
       IN IF is_3d THEN SetKey(st, "is3D", PTrue) ELSE st

\* Lines 76-89: is_3d from SeriesDescription and SequenceName, upper-cased.
Detect3D(st, rec) ==
  IF st.exc # NoExc THEN st
  ELSE LET is_3d_desc ==
             /\ hasattr(rec, "SeriesDescription")
             /\ Has3DWord(Upper(Str(rec["SeriesDescription"])))
           is_3d ==
             IF hasattr(rec, "SequenceName")
                /\ Has3DWord(Upper(Str(rec["SequenceName"])))
             THEN TRUE ELSE is_3d_desc
       IN IF is_3d THEN SetKey(st, "is3D", PTrue) ELSE st

\* Lines 91-116.
AcquisitionParams(st, rec) ==
  FloatField(
   FloatField(
    FloatField(
     FloatField(
      FloatField(st, rec, "SliceThickness", "sliceThickness"),
      rec, "RepetitionTime", "TR"),
     rec, "EchoTime", "TE"),
    rec, "FlipAngle", "flipAngle"),
   rec, "SpacingBetweenSlices", "spacingBetweenSlices")

\* Lines 118-123: [float(x) for x in dcm.PixelSpacing], dropped whole on any raise.
PixelDims(st, rec) ==
  IF st.exc # NoExc \/ ~hasattr(rec, "PixelSpacing") THEN st
  ELSE IF ~IsIterable(rec["PixelSpacing"]) THEN st
  ELSE LET it == Iter(rec["PixelSpacing"])
           xs == [i \in 1..Len(it) |-> Float(it[i])]
       IN IF IsRaise(FirstRaise(xs)) THEN st
          ELSE SetKey(st, "pixelSpacing", PList(xs))

\* Lines 125-127.
MagnetomSola(st, rec) ==
  IF st.exc # NoExc THEN st
  ELSE IF /\ hasattr(rec, "ManufacturerModelName")
          /\ Contains(Str(rec["ManufacturerModelName"]),
                      <<"M","A","G","N","E","T","O","M"," ","S","o","l","a">>)
       THEN SetKey(st, "isMagnetomSola", PTrue) ELSE st

\* Lines 24-127: the metadata dictionary of a decoded record.
ExtractFields(rec) ==
  MagnetomSola(
   PixelDims(
    AcquisitionParams(
     Detect3D(
      PrivateFlag(
       SequenceInfo(
        ScannerInfo([m |-> EmptyDict, exc |-> NoExc], rec),
        rec),
       rec),
      rec),
     rec),
    rec),
   rec)

\* ------------------------------------------------------------------- JSON
\* What json.dump writes for a value: allow_nan is left at its default, so a
\* NaN or an infinity is written as the bare token NaN or Infinity.
RECURSIVE ToJson(_)
ToJson(v) ==
  CASE v.t \in {"float", "int"} -> [j |-> "number", text |-> Str(v)]
    [] v.t = "nan" -> [j |-> "NaN"]
    [] v.t = "inf" -> [j |-> "Infinity"]
    [] v.t = "str" -> [j |-> "string", s |-> v.s]
    [] v.t = "true" -> [j |-> "true"]
    [] v.t = "none" -> [j |-> "null"]
    [] v.t = "list" -> [j |-> "array", items |-> [i \in 1..Len(v.elems) |-> ToJson(v.elems[i])]]

\* The file json.dump(d, f, indent=2) leaves once it has completed.
JsonFile(d) == [kind |-> "json", obj |-> [k \in DOMAIN d |-> ToJson(d[k])]]
\* No file at the path; bytes unrelated to this program; a file opened with
\* 'w' whose dump did not complete.
NoFile == [kind |-> "nofile"]
StaleFile == [kind |-> "stale"]
PartialFile == [kind |-> "partial"]
PriorContents == {NoFile, StaleFile}

\* Lines 141-146.
ImportFallback ==
  (("manufacturer" :> PStr(<<"U","n","k","n","o","w","n">>))
   @@ ("fieldStrength" :> PInt(FallbackFieldStrength))
   @@ ("modelName" :> PStr(<<"U","n","k","n","o","w","n">>))
   @@ ("error" :> PStr(<<"pydicom module not installed">>)))
\* Lines 155-160.
GenericFallback(msg) ==
  (("manufacturer" :> PStr(<<"U","n","k","n","o","w","n">>))
   @@ ("fieldStrength" :> PInt(FallbackFieldStrength))
   @@ ("modelName" :> PStr(<<"U","n","k","n","o","w","n">>))
   @@ ("error" :> PStr(msg)))

\* ------------------------------------------------------------ environment
\* What goes wrong around the output, the same on every run:
\*   "open"  open(output_path, 'w') raises OSError at every call;
\*   "dump"  json.dump of the metadata raises OSError after open truncated
\*           the file, the smaller fallback document still fits;
\*   "post"  print("SUCCESS") raises OSError once the write has completed
\*           (a transient failure of stdout: the handler's prints succeed).
\* The input path and the output path are different paths.
Faults == {"none", "open", "dump", "post"}
OpenMsg == <<"[Errno 2] No such file or directory">>
DumpMsg == <<"[Errno 28] No space left on device">>
PostMsg == <<"[Errno 11] write could not complete without blocking">>
DecodeMsg == <<"File is missing DICOM File Meta Information header">>
\* The input path: not a regular file, a file dcmread rejects, a DICOM file.
InputKinds == {"missing", "corrupt", "dicom"}
ArgvLens == {ArgvLen - 1, ArgvLen, ArgvLen + 1}

\* How extract_metadata ended.
Running == [how |-> "running"]
Returned(code) == [how |-> "return", code |-> code]
SysExited(code) == [how |-> "exit", code |-> code]
Propagated(msg) == [how |-> "raise", msg |-> msg]
NoSnapshot == [taken |-> FALSE]

VARIABLES
  pc,         \* the statement the process is at
  argvLen,    \* len(sys.argv)
  inputKind,  \* what the input path names
  lib,        \* whether `import pydicom` succeeds
  fault,      \* the fault around the output
  dcm,        \* the decoded Source Record
  metadata,   \* the metadata dictionary
  exc,        \* the message of the exception being handled
  outFile,    \* the content at the output path
  outBefore,  \* the content at the output path when the run started
  result,     \* how extract_metadata ended
  status,     \* the process exit status, once exited
  invoked,    \* extract_metadata has been called in this run
  handler,    \* the except clause entered in this run
  run,        \* the number of the current run
  first       \* result, status and output of the first run

vars == <<pc, argvLen, inputKind, lib, fault, dcm, metadata, exc, outFile,
          outBefore, result, status, invoked, handler, run, first>>

env == <<argvLen, inputKind, lib, fault>>

Init ==
  /\ pc = "args"
  /\ argvLen \in ArgvLens
  /\ inputKind \in InputKinds
  /\ lib \in BOOLEAN
  /\ fault \in Faults
  /\ dcm = NoRecord
  /\ metadata = EmptyDict
  /\ exc = <<>>
  /\ outFile \in PriorContents
  /\ outBefore = outFile
  /\ result = Running
  /\ status = {}
  /\ invoked = FALSE
  /\ handler = "none"
  /\ run = 1
  /\ first = NoSnapshot

\* WriteFile with the file opened in mode 'a': the document follows what the
\* path held.
WriteFileAppend(old, d) ==
  IF old = NoFile THEN JsonFile(d)
  ELSE [kind |-> "appended", parts |-> <<old, JsonFile(d)>>]

\* with open(output_path, 'w') as f: json.dump(d, f, indent=2), the open
\* having succeeded and the dump completed.
WriteFile(old, d) == JsonFile(d)

\* Lines 166-168: the argument count.
CheckArgs ==
  /\ pc = "args"
  /\ IF argvLen # ArgvLen
     THEN /\ status' = {UsageStatus}
          /\ pc' = "exited"
     ELSE /\ pc' = "input"
          /\ UNCHANGED status
  /\ UNCHANGED <<env, dcm, metadata, exc, outFile, outBefore, result, invoked,
                 handler, run, first>>

\* CheckInput without the sys.exit(1): a missing input only prints the error.
CheckInputNoExit ==
  /\ pc = "input"
  /\ pc' = "import"
  /\ invoked' = TRUE
  /\ UNCHANGED <<env, dcm, metadata, exc, outFile, outBefore, result, status,
                 handler, run, first>>

\* Lines 170-176: os.path.isfile(input_file).
CheckInput ==
  /\ pc = "input"
  /\ IF inputKind = "missing"
     THEN /\ status' = {UsageStatus}
          /\ pc' = "exited"
          /\ UNCHANGED invoked
     ELSE /\ pc' = "import"
          /\ invoked' = TRUE
          /\ UNCHANGED status
  /\ UNCHANGED <<env, dcm, metadata, exc, outFile, outBefore, result, handler,
                 run, first>>

\* Line 17: import pydicom.
Import ==
  /\ pc = "import"
  /\ IF lib
     THEN /\ pc' = "decode"
          /\ UNCHANGED <<exc, handler>>
     ELSE /\ pc' = "except_import"
          /\ exc' = <<"No module named 'pydicom'">>
          /\ handler' = "import"
  /\ UNCHANGED <<env, dcm, metadata, outFile, outBefore, result, status,
                 invoked, run, first>>

\* Lines 19-24: dcm = pydicom.dcmread(dicom_path); metadata = {}.
\* A later run reads the record the first run read.
DecodeFrom(pool) ==
  /\ pc = "decode"
  /\ IF inputKind = "corrupt"
     THEN /\ pc' = "except_generic"
          /\ exc' = DecodeMsg
          /\ handler' = "generic"
          /\ UNCHANGED <<dcm, metadata>>
     ELSE /\ \E rec \in pool :
               /\ run > 1 => rec = dcm
               /\ dcm' = rec
          /\ metadata' = EmptyDict
          /\ pc' = "extract"
          /\ UNCHANGED <<exc, handler>>
  /\ UNCHANGED <<env, outFile, outBefore, result, status, invoked, run, first>>
Decode == DecodeFrom(Records)
DecodeTwice == DecodeFrom(RecordsTwice)

\* Lines 40-127: the attribute table and the two heuristics.
Extract ==
  /\ pc = "extract"
  /\ LET st == ExtractFields(dcm)
     IN /\ metadata' = st.m
        /\ IF st.exc # NoExc
           THEN /\ pc' = "except_generic"
                /\ exc' = <<st.exc.exc>>
                /\ handler' = "generic"
           ELSE /\ pc' = "write"
                /\ UNCHANGED <<exc, handler>>
  /\ UNCHANGED <<env, dcm, outFile, outBefore, result, status, invoked, run, first>>

\* Lines 129-132: the success-path write.
WriteOutput ==
  /\ pc = "write"
  /\ IF fault = "open"
     THEN /\ pc' = "except_generic"
          /\ exc' = OpenMsg
          /\ handler' = "generic"
          /\ UNCHANGED outFile
     ELSE IF fault = "dump"
     THEN /\ pc' = "except_generic"
          /\ exc' = DumpMsg
          /\ handler' = "generic"
          /\ outFile' = PartialFile
     ELSE /\ pc' = "success"
          /\ outFile' = WriteFile(outFile, metadata)
          /\ UNCHANGED <<exc, handler>>
  /\ UNCHANGED <<env, dcm, metadata, outBefore, result, status, invoked, run, first>>

\* Lines 134-135: print("SUCCESS"); return 0.
Success ==
  /\ pc = "success"
  /\ IF fault = "post"
     THEN /\ pc' = "except_generic"
          /\ exc' = PostMsg
          /\ handler' = "generic"
          /\ UNCHANGED result
     ELSE /\ pc' = "exit"
          /\ result' = Returned(RcSuccess)
          /\ UNCHANGED <<exc, handler>>
  /\ UNCHANGED <<env, dcm, metadata, outFile, outBefore, status, invoked, run, first>>

\* The try statement without its `except ImportError` clause: the ImportError
\* is handled by `except Exception`.
ImportHandlerGeneric ==
  /\ pc = "except_import"
  /\ IF fault = "open"
     THEN /\ result' = Propagated(OpenMsg)
          /\ UNCHANGED outFile
     ELSE /\ outFile' = WriteFile(outFile, GenericFallback(exc))
          /\ result' = Returned(RcGeneric)
  /\ pc' = "exit"
  /\ UNCHANGED <<env, dcm, metadata, exc, outBefore, status, invoked, handler,
                 run, first>>

\* Lines 137-148: except ImportError: write the fixed fallback, exit(1).
\* open() raising inside the handler leaves the handler by that exception.
ImportHandler ==
  /\ pc = "except_import"
  /\ IF fault = "open"
     THEN /\ result' = Propagated(OpenMsg)
          /\ UNCHANGED outFile
     ELSE /\ outFile' = WriteFile(outFile, ImportFallback)
          /\ result' = SysExited(RcImport)
  /\ pc' = "exit"
  /\ UNCHANGED <<env, dcm, metadata, exc, outBefore, status, invoked, handler,
                 run, first>>

\* GenericHandler that only prints the error and returns 2.
GenericHandlerNoWrite ==
  /\ pc = "except_generic"
  /\ result' = Returned(RcGeneric)
  /\ pc' = "exit"
  /\ UNCHANGED <<env, dcm, metadata, exc, outFile, outBefore, status, invoked,
                 handler, run, first>>

\* Lines 151-162: except Exception as e: write the fallback with str(e), return 2.
GenericHandler ==
  /\ pc = "except_generic"
  /\ IF fault = "open"
     THEN /\ result' = Propagated(OpenMsg)
          /\ UNCHANGED outFile
     ELSE /\ outFile' = WriteFile(outFile, GenericFallback(exc))
          /\ result' = Returned(RcGeneric)
  /\ pc' = "exit"
  /\ UNCHANGED <<env, dcm, metadata, exc, outBefore, status, invoked, handler,
                 run, first>>

\* Line 179: sys.exit(extract_metadata(...)).  A returned code is the status;
\* SystemExit(1) from exit(1) passes through with its code; any other
\* exception is uncaught and the interpreter exits with status 1.
Exit ==
  /\ pc = "exit"
  /\ status' = IF result.how \in {"return", "exit"} THEN {result.code}
               ELSE {UsageStatus}
  /\ pc' = "exited"
  /\ UNCHANGED <<env, dcm, metadata, exc, outFile, outBefore, result, invoked,
                 handler, run, first>>

Next ==
  \/ CheckArgs
  \/ CheckInput
  \/ Import
  \/ Decode
  \/ Extract
  \/ WriteOutput
  \/ Success
  \/ ImportHandler
  \/ GenericHandler
  \/ Exit

Spec == Init /\ [][Next]_vars

\* ---------------------------------------------------------------- two runs
\* The same command line is run again in the same environment.
Rerun ==
  /\ pc = "exited"
  /\ run < MaxRuns
  /\ run' = run + 1
  /\ first' = IF run = 1
              THEN [taken |-> TRUE, result |-> result, status |-> status,
                    out |-> outFile]
              ELSE first
  /\ pc' = "args"
  /\ metadata' = EmptyDict
  /\ exc' = <<>>
  /\ outBefore' = outFile
  /\ result' = Running
  /\ status' = {}
  /\ invoked' = FALSE
  /\ handler' = "none"
  /\ UNCHANGED <<env, dcm, outFile>>

\* Between two runs something else replaces what the output path holds.
Tamper ==
  /\ pc = "args"
  /\ run > 1
  /\ outBefore = first.out
  /\ \E c \in PriorContents :
       /\ c # outFile
       /\ outFile' = c
       /\ outBefore' = c
  /\ UNCHANGED <<env, pc, dcm, metadata, exc, result, status, invoked, handler,
                 run, first>>

NextTwice ==
  \/ CheckArgs
  \/ CheckInput
  \/ Import
  \/ DecodeTwice
  \/ Extract
  \/ WriteOutput
  \/ Success
  \/ ImportHandler
  \/ GenericHandler
  \/ Exit
  \/ Rerun
  \/ Tamper

SpecTwice == Init /\ [][NextTwice]_vars

\* ------------------------------------------------------ property helpers
Exited == pc = "exited"
\* extract_metadata ended with a code (return 0, exit(1) or return 2).
HasCode == result.how \in {"return", "exit"}
\* The try body got past the attribute table and the heuristics.
Extracted ==
  /\ invoked /\ lib /\ inputKind = "dicom"
  /\ pc \in {"write", "success", "except_generic", "exit", "exited"}

\* The output key of each attribute of the table of step 3.
KeyOf(a) ==
  CASE a = "Manufacturer" -> "manufacturer"
    [] a = "ManufacturerModelName" -> "modelName"
    [] a = "MagneticFieldStrength" -> "fieldStrength"
    [] a = "ProtocolName" -> "protocolName"
    [] a = "SeriesDescription" -> "seriesDescription"
    [] a = "SequenceName" -> "sequenceName"
    [] a = "ScanningSequence" -> "scanningSequence"
    [] a = "SequenceVariant" -> "sequenceVariant"
    [] a = "ImageType" -> "imageType"
    [] a = "MRAcquisitionType" -> "acquisitionType"
    [] a = "SliceThickness" -> "sliceThickness"
    [] a = "RepetitionTime" -> "TR"
    [] a = "EchoTime" -> "TE"
    [] a = "FlipAngle" -> "flipAngle"
    [] a = "SpacingBetweenSlices" -> "spacingBetweenSlices"
    [] a = "PixelSpacing" -> "pixelSpacing"

\* The value converts to a number.
Numeric(v) ==
  \/ v.t \in {"float", "nan", "inf", "int"}
  \/ v.t \in {"str"} /\ ~IsRaise(ParseFloat(v.s))
\* The value converts to an array of numbers.
NumericList(v) ==
  /\ v.t = "list"
  /\ \A i \in 1..Len(v.elems) : Numeric(v.elems[i])

\* A JSON token that a JSON parser accepts: no NaN, no Infinity, in arrays too.
RECURSIVE ValidToken(_)
ValidToken(tok) ==
  IF tok.j \in {"NaN", "Infinity"} THEN FALSE
  ELSE IF tok.j = "array"
    THEN \A i \in 1..Len(tok.items) : ValidToken(tok.items[i])
  ELSE TRUE
\* The file exists and holds one complete, valid JSON document.
ValidJson(f) ==
  /\ f.kind = "json"
  /\ \A k \in DOMAIN f.obj : ValidToken(f.obj[k])

Unknown == [j |-> "string", s |-> <<"U","n","k","n","o","w","n">>]
\* {"manufacturer": "Unknown", "fieldStrength": 3, "modelName": "Unknown",
\*  "error": msg} as written to the file.
FallbackFile(msg) ==
  [kind |-> "json",
   obj |-> (("manufacturer" :> Unknown)
            @@ ("fieldStrength" :> [j |-> "number", text |-> <<"3">>])
            @@ ("modelName" :> Unknown)
            @@ ("error" :> [j |-> "string", s |-> msg]))]

\* w occurs in s, letters compared without regard to case.
SameLetter(c, d) == UpperCh(c) = UpperCh(d)
ContainsCI(s, w) ==
  \E i \in 1..(Len(s) - Len(w) + 1) :
    \A j \in 1..Len(w) : SameLetter(s[i + j - 1], w[j])
Names3D(rec, a) ==
  /\ rec[a] # Absent
  /\ \/ ContainsCI(Str(rec[a]), <<"3","d">>)
     \/ ContainsCI(Str(rec[a]), <<"m","p","r","a","g","e">>)
     \/ ContainsCI(Str(rec[a]), <<"s","p","a","c","e">>)

\* ----------------------------------------------------------------- claims

\* C1: after any run of extract_metadata, on every exit path (success,
\* library missing, generic failure, a failure while the output is being
\* written), a file exists at the output path and holds a complete valid
\* JSON document.  Stated as claimed; the code violates it.
C1_OutputAlwaysValidJson ==
  (Exited /\ invoked) => ValidJson(outFile)

\* C2: every exception of steps 2-6 that reaches the outer boundary, a
\* failure of the write included, ends with the fallback document carrying
\* the exception's message at the output path and with return code 2.
\* Stated as claimed; the code violates it.
C2_OuterHandlerWritesFallback ==
  (Exited /\ handler = "generic") =>
    /\ outFile = FallbackFile(exc)
    /\ result = Returned(2)

C4_FieldFailuresAbsorbed ==
  Extracted =>
    /\ handler = "generic" => exc \in {OpenMsg, DumpMsg, PostMsg}
    /\ fault = "none" => handler = "none"
    /\ (Exited /\ fault = "none") =>
         (result = Returned(0) /\ outFile = JsonFile(metadata))
    /\ \A a \in NumAttrs \ {"MagneticFieldStrength"} :
         (KeyOf(a) \in DOMAIN metadata) <=> (dcm[a] # Absent /\ Numeric(dcm[a]))
    /\ (dcm["MagneticFieldStrength"] # Absent
          /\ ~Numeric(dcm["MagneticFieldStrength"])) =>
         ("fieldStrength" \in DOMAIN metadata
            /\ metadata["fieldStrength"] = PFloat(30))
    /\ ("pixelSpacing" \in DOMAIN metadata) <=> NumericList(dcm["PixelSpacing"])
    /\ \A a \in SafeAttrs :
         (KeyOf(a) \in DOMAIN metadata) <=> (dcm[a] # Absent)
C4_Witness ==
  /\ Exited /\ result = Returned(0)
  /\ dcm["SliceThickness"] = PNone
  /\ dcm["PixelSpacing"] # Absent /\ ~NumericList(dcm["PixelSpacing"])
  /\ DOMAIN outFile.obj = {}

\* C5: in every successful run the output has fieldStrength = 3.0 when
\* MagneticFieldStrength is absent or not convertible to a number, and its
\* numeric value when it is.  Stated as claimed; the code violates it.
C5_FieldStrengthDefaulted ==
  (Exited /\ result = Returned(0)) =>
    LET v == dcm["MagneticFieldStrength"]
    IN /\ "fieldStrength" \in DOMAIN outFile.obj
       /\ IF v # Absent /\ Numeric(v)
          THEN outFile.obj["fieldStrength"] = ToJson(Float(v))
          ELSE outFile.obj["fieldStrength"]
                 = [j |-> "number", text |-> <<"3", ".", "0">>]

\* C6: the driver validates before it acts: with an argument count other
\* than two (len(sys.argv) other than 3) or an input path that is no regular
\* file, the process exits with status 1, extract_metadata is never invoked
\* and the output path keeps what it held; extract_metadata is invoked only
\* after both checks passed, and the process exits with its code.
C6_ValidateBeforeActing ==
  /\ invoked => (argvLen = 3 /\ inputKind # "missing")
  /\ ~invoked => (outFile = outBefore /\ result = Running)
  /\ (Exited /\ (argvLen # 3 \/ inputKind = "missing")) =>
       (status = {1} /\ ~invoked)
  /\ (Exited /\ argvLen = 3 /\ inputKind # "missing") => invoked
  /\ (Exited /\ HasCode) => status = {result.code}
C6_Witness ==
  /\ Exited /\ argvLen = 3 /\ inputKind = "missing"
  /\ status = {1} /\ outFile = StaleFile

\* C7: in every successful run the output has the key is3D exactly when the
\* private 3D flag is present, or SeriesDescription or SequenceName contains
\* "3D", "MPRAGE" or "SPACE" in any letter case; when present it is true.
C7_Is3DIffMatched ==
  (Exited /\ result = Returned(0)) =>
    LET matched == \/ dcm[PrivateAttr] # Absent
                   \/ Names3D(dcm, "SeriesDescription")
                   \/ Names3D(dcm, "SequenceName")
    IN /\ ("is3D" \in DOMAIN outFile.obj) <=> matched
       /\ ("is3D" \in DOMAIN outFile.obj) => outFile.obj["is3D"] = [j |-> "true"]
C7_Witness ==
  /\ Exited /\ result = Returned(0)
  /\ dcm["SeriesDescription"] = PStr(<<"t","1","_","m","p","r","a","g","e">>)
  /\ dcm["SequenceName"] = PStr(<<"s","e","2","d","1">>)
  /\ "is3D" \in DOMAIN outFile.obj

\* C8: every number in every output document is a finite JSON number: a
\* value whose conversion gives NaN or an infinity is omitted, never written
\* as a token that is not JSON.  Stated as claimed; the code violates it.
C8_NumbersFinite ==
  outFile.kind = "json" => \A k \in DOMAIN outFile.obj : ValidToken(outFile.obj[k])

\* C9: running the program again with the same command line in the same
\* environment ends with the same code and status as the first run and, when
\* the run reaches extract_metadata and the output path can be opened,
\* leaves the output that the first run left, whatever the output path held
\* before each run.
C9_Idempotent ==
  (Exited /\ run > 1) =>
    /\ result = first.result
    /\ status = first.status
    /\ (invoked /\ fault # "open") => outFile = first.out
C9_Witness ==
  /\ Exited /\ run = 2 /\ result = Returned(0)
  /\ outBefore = StaleFile
  /\ outFile = first.out
  /\ DOMAIN outFile.obj # {}

\* C10: the code and the output agree: with code 0 the file holds the
\* metadata and no "error" key; with code 1 or 2 it holds a fallback document
\* with an "error" key, also when the failure came after the success-path
\* write had completed.
C10_CodeAgreesWithOutput ==
  /\ result = Returned(0) =>
       /\ outFile = JsonFile(metadata)
       /\ "error" \notin DOMAIN outFile.obj
  /\ (HasCode /\ result.code # 0) =>
       /\ outFile.kind = "json"
       /\ DOMAIN outFile.obj = {"manufacturer", "fieldStrength", "modelName", "error"}
       /\ outFile.obj["manufacturer"] = Unknown
       /\ outFile.obj["modelName"] = Unknown
C10_Witness ==
  /\ Exited /\ fault = "post" /\ result = Returned(2)
  /\ DOMAIN metadata # {}
  /\ outFile = FallbackFile(PostMsg)

====
